---------------------------- MODULE Spec2Model ----------------------------
(***************************************************************************)
(* A model of crypto_calc.py: the numeric-block text codec                 *)
(* (convert_to_plaintext / convert_to_original) and the two ciphers built  *)
(* on it (elGamal_encrypt / elGamal_decrypt, rsa_encrypt / rsa_decrypt).   *)
(*                                                                         *)
(* A Python str is a sequence of one-character strings, so that formatting *)
(* (str, zero padding), parsing (int, split, slicing) and lookup in the    *)
(* ASCII table are computed, not assumed.  A call either returns a value   *)
(* or raises: its outcome is a record [err, val].                          *)
(***************************************************************************)
EXTENDS Integers, Sequences, FiniteSets

VARIABLES s, pc, plaintext, call, ciphertext, dcall, back2plain, original

vars == <<s, pc, plaintext, call, ciphertext, dcall, back2plain, original>>

----------------------------------------------------------------------------
(* Bounds of the model *)

\* longest message drawn
MaxLen == 5

\* longest list of ephemeral secrets drawn
MaxSecrets == 3

\* the characters messages are drawn from: a lower-case letter whose code has
\* a leading zero, a letter with a two-digit code, and the space
Chars == {"a", "P", " "}

----------------------------------------------------------------------------
(* Outcomes of a call *)

Ok(v) == [err |-> "none", val |-> v]

Raise(e) == [err |-> e, val |-> <<>>]

\* Python's None for an optional argument; Some(x) is a supplied argument x
None == <<>>

Some(x) == <<x>>

----------------------------------------------------------------------------
(* The ASCII table *)

ASCIIKeys ==
    << "A", "B", "C", "D", "E", "F", "G", "H", "I", "J", "K", "L", "M", "N",
       "O", "P", "Q", "R", "S", "T", "U", "V", "W", "X", "Y", "Z", " " >>

ASCIIValues ==
    << <<"0","0">>, <<"0","1">>, <<"0","2">>, <<"0","3">>, <<"0","4">>,
       <<"0","5">>, <<"0","6">>, <<"0","7">>, <<"0","8">>, <<"0","9">>,
       <<"1","0">>, <<"1","1">>, <<"1","2">>, <<"1","3">>, <<"1","4">>,
       <<"1","5">>, <<"1","6">>, <<"1","7">>, <<"1","8">>, <<"1","9">>,
       <<"2","0">>, <<"2","1">>, <<"2","2">>, <<"2","3">>, <<"2","4">>,
       <<"2","5">>, <<"2","6">> >>

\* ASCII[c] for a key c of the table
ASCII(c) == ASCIIValues[CHOOSE i \in DOMAIN ASCIIKeys : ASCIIKeys[i] = c]

LowerCase ==
    << "a", "b", "c", "d", "e", "f", "g", "h", "i", "j", "k", "l", "m", "n",
       "o", "p", "q", "r", "s", "t", "u", "v", "w", "x", "y", "z" >>

\* str.upper() on one character
UpperChar(c) ==
    IF \E i \in DOMAIN LowerCase : LowerCase[i] = c
    THEN ASCIIKeys[CHOOSE i \in DOMAIN LowerCase : LowerCase[i] = c]
    ELSE c

\* str.upper()
upper(t) == [i \in DOMAIN t |-> UpperChar(t[i])]

----------------------------------------------------------------------------
(* Python built-ins used by the program *)

Digits == <<"0", "1", "2", "3", "4", "5", "6", "7", "8", "9">>

DigitVal(c) == (CHOOSE i \in DOMAIN Digits : Digits[i] = c) - 1

RECURSIVE int(_)
\* int(t) of a non-empty string of decimal digits (leading zeros allowed)
int(t) ==
    IF t = <<>> THEN 0
    ELSE 10 * int(SubSeq(t, 1, Len(t) - 1)) + DigitVal(t[Len(t)])

RECURSIVE str(_)
\* str(n) of an integer n >= 0: no sign, no leading zeros, "0" for 0
str(n) ==
    IF n < 10 THEN <<Digits[n + 1]>>
    ELSE Append(str(n \div 10), Digits[(n % 10) + 1])

\* '0' * n
Zeros(n) == [i \in 1..n |-> "0"]

RECURSIVE SplitFrom(_, _, _, _)
SplitFrom(t, i, cur, acc) ==
    IF i > Len(t)
    THEN IF cur = <<>> THEN acc ELSE Append(acc, cur)
    ELSE IF t[i] = " "
         THEN SplitFrom(t, i + 1, <<>>, IF cur = <<>> THEN acc ELSE Append(acc, cur))
         ELSE SplitFrom(t, i + 1, Append(cur, t[i]), acc)

\* str.split(): the maximal runs of non-blank characters, in order
split(t) == SplitFrom(t, 1, <<>>, <<>>)

\* (a * b) % n for 0 <= a < 2^21, 0 <= b < 2^30 and 1 <= n <= 2^21, computed
\* over the three ten-bit limbs of b (Horner), so that no intermediate product
\* exceeds 31 bits
MulMod(a, b, n) ==
    LET b2 == b \div 1048576
        b1 == (b \div 1024) % 1024
        b0 == b % 1024
        x2 == (a * b2) % n
        x1 == (((x2 * 1024) % n) + ((a * b1) % n)) % n
    IN  (((x1 * 1024) % n) + ((a * b0) % n)) % n

RECURSIVE PowMod(_, _, _)
\* pow(b, e, n) for e >= 0: b^e mod n by repeated squaring (a zero half-power
\* stays zero, which also settles the half-power before it is squared)
PowMod(b, e, n) ==
    IF e = 0 THEN 1 % n
    ELSE LET h == PowMod(b, e \div 2, n)
         IN  IF h = 0 THEN 0
             ELSE IF e % 2 = 0 THEN MulMod(h, h, n)
             ELSE MulMod(MulMod(h, h, n), b % n, n)

RECURSIVE gcd(_, _)
gcd(a, b) == IF b = 0 THEN a ELSE gcd(b, a % b)

RECURSIVE Bezout(_, _)
\* <<x, y>> with a*x + b*y = gcd(a, b), by the extended Euclidean algorithm
Bezout(a, b) ==
    IF b = 0 THEN <<1, 0>>
    ELSE LET r == Bezout(b, a % b)
         IN  <<r[2], r[1] - (a \div b) * r[2]>>

\* the inverse of a modulo n, for gcd(a, n) = 1
ModInverse(a, n) == Bezout(a % n, n)[1] % n

\* pow(b, e, n) for any integer e and n >= 1: a negative exponent inverts the
\* base first and raises ValueError when the base is not invertible modulo n
pow(b, e, n) ==
    IF e >= 0 THEN Ok(PowMod(b, e, n))
    ELSE IF gcd(b % n, n) # 1 THEN Raise("ValueError")
    ELSE Ok(PowMod(ModInverse(b, n), 0 - e, n))

----------------------------------------------------------------------------
(* The text codec *)

RECURSIVE PlaintextFromNoStart(_, _, _)
\* PlaintextFrom without the test for the start of the message: a separator
\* is put in front of the first block as well
PlaintextFromNoStart(u, i, result) ==
    IF i > Len(u) THEN result
    ELSE IF (i - 1) % 3 # 0
         THEN PlaintextFromNoStart(u, i + 1, result \o ASCII(u[i]))
         ELSE PlaintextFromNoStart(u, i + 1, result \o <<" ">> \o ASCII(u[i]))

RECURSIVE PlaintextFrom(_, _, _)
PlaintextFrom(u, i, result) ==
    IF i > Len(u) THEN result
    ELSE IF (i - 1) % 3 # 0 \/ (i - 1) = 0
         THEN PlaintextFrom(u, i + 1, result \o ASCII(u[i]))
         ELSE PlaintextFrom(u, i + 1, result \o <<" ">> \o ASCII(u[i]))

\* convert_to_plaintext(s)
convert_to_plaintext(m) == PlaintextFrom(upper(m), 1, <<>>)

\* Groups with slices of one digit: [block[i:i+1] for i in range(0, len(block), 2)]
GroupsOneDigit(block) ==
    [j \in 1..((Len(block) + 1) \div 2) |-> SubSeq(block, 2 * j - 1, 2 * j - 1)]

\* [block[i:i+2] for i in range(0, len(block), 2)]
Groups(block) ==
    [j \in 1..((Len(block) + 1) \div 2) |->
        SubSeq(block, 2 * j - 1, IF 2 * j <= Len(block) THEN 2 * j ELSE Len(block))]

RECURSIVE Chain(_)
\* itertools.chain.from_iterable
Chain(lists) == IF lists = <<>> THEN <<>> ELSE Head(lists) \o Chain(Tail(lists))

\* list(ASCII.values()).index(char): 0 stands for the ValueError of a miss
ValuesIndex(char) ==
    IF \E i \in DOMAIN ASCIIValues : ASCIIValues[i] = char
    THEN CHOOSE i \in DOMAIN ASCIIValues :
             /\ ASCIIValues[i] = char
             /\ \A j \in 1..(i - 1) : ASCIIValues[j] # char
    ELSE 0

\* convert_to_original(plaintext)
convert_to_original(p) ==
    LET blocks == split(p)
        parsed == Chain([b \in DOMAIN blocks |-> Groups(blocks[b])])
    IN  IF \E i \in DOMAIN parsed : ValuesIndex(parsed[i]) = 0
        THEN Raise("ValueError")
        ELSE Ok([i \in DOMAIN parsed |-> ASCIIKeys[ValuesIndex(parsed[i])]])

----------------------------------------------------------------------------
(* The ciphers *)

\* Pad filling to five digits only
PadToFive(ans) == IF Len(ans) < 5 THEN Zeros(5 - Len(ans)) \o ans ELSE ans

\* Pad with the zeros behind the digits: ans = ans + '0' * (6 - len(ans))
PadRight(ans) == IF Len(ans) < 6 THEN ans \o Zeros(6 - Len(ans)) ELSE ans

\* if len(ans) < 6: ans = '0' * (6 - len(ans)) + ans
Pad(ans) == IF Len(ans) < 6 THEN Zeros(6 - Len(ans)) \o ans ELSE ans

\* one pass of the loop of rsa_encrypt over plaintext block m; the exponents
\* of the keys are positive, so pow takes its repeated-squaring branch
RsaEncryptBlock(m, s_kpriv, r_k, N) ==
    LET ans1 == str(PowMod(int(m), s_kpriv, N))
        ans2 == IF r_k # None THEN str(PowMod(int(ans1), r_k[1], N)) ELSE ans1
    IN  Pad(ans2)

\* rsa_encrypt(s, s_kpub, s_kpriv, r_k): the list of ciphertext blocks
rsa_encrypt(m, s_kpub, s_kpriv, r_k) ==
    LET P == s_kpub[1]
        Q == s_kpub[2]
        E == s_kpub[3]
        N == P * Q
        blocks == split(convert_to_plaintext(m))
        kpriv == IF s_kpriv = None THEN E ELSE s_kpriv[1]
    IN  [i \in DOMAIN blocks |-> RsaEncryptBlock(blocks[i], kpriv, r_k, N)]

\* RsaDecryptBlock without the sender layer: pow(int(cBlock), r_kpriv, N) only
RsaDecryptBlockReceiverOnly(cBlock, r_kpriv, E, N) ==
    Pad(str(PowMod(int(cBlock), r_kpriv, N)))

\* one pass of the loop of rsa_decrypt over ciphertext block cBlock
RsaDecryptBlock(cBlock, r_kpriv, E, N) ==
    Pad(str(PowMod(PowMod(int(cBlock), r_kpriv, N), E, N)))

RECURSIVE JoinBlocks(_)
\* result += ans + ' ' for every block
JoinBlocks(blocks) ==
    IF blocks = <<>> THEN <<>>
    ELSE Head(blocks) \o <<" ">> \o JoinBlocks(Tail(blocks))

\* result[:-1]
DropLast(t) == IF t = <<>> THEN <<>> ELSE SubSeq(t, 1, Len(t) - 1)

\* rsa_decrypt(c, r_kpriv, s_k): the decrypted blocks as one string
rsa_decrypt(c, r_kpriv, s_k) ==
    LET P == s_k[1]
        Q == s_k[2]
        E == s_k[3]
        N == P * Q
    IN  DropLast(JoinBlocks([i \in DOMAIN c |-> RsaDecryptBlock(c[i], r_kpriv, E, N)]))

\* elGamal_encrypt pairing blocks with secrets as zip does: it stops at the
\* shorter list and never raises
elGamal_encrypt_zip(m, kpub, K) ==
    LET P == kpub[1]
        G == kpub[2]
        Y == kpub[3]
        blocks == split(convert_to_plaintext(m))
        n == IF Len(K) < Len(blocks) THEN Len(K) ELSE Len(blocks)
    IN  Ok([i \in 1..n |->
               << PowMod(G, K[i], P),
                  MulMod(int(blocks[i]), PowMod(Y, K[i], P), P) >>])

\* elGamal_encrypt(s, kpub, K): K[i] raises IndexError when K is shorter than
\* the list of blocks, and nothing is returned
elGamal_encrypt(m, kpub, K) ==
    LET P == kpub[1]
        G == kpub[2]
        Y == kpub[3]
        blocks == split(convert_to_plaintext(m))
    IN  IF \E i \in DOMAIN blocks : i > Len(K)
        THEN Raise("IndexError")
        ELSE Ok([i \in DOMAIN blocks |->
                    << PowMod(G, K[i], P),
                       MulMod(int(blocks[i]), PowMod(Y, K[i], P), P) >>])

\* ElGamalDecryptBlock with the exponent kprivate in place of -kprivate
ElGamalDecryptBlockNoInverse(cBlock, kprivate, P) ==
    Ok(Pad(str(MulMod(PowMod(cBlock[1], kprivate, P), cBlock[2], P))))

\* one pass of the loop of elGamal_decrypt over the pair cBlock
ElGamalDecryptBlock(cBlock, kprivate, P) ==
    LET inv == pow(cBlock[1], 0 - kprivate, P)
    IN  IF inv.err # "none" THEN inv
        ELSE Ok(Pad(str(MulMod(inv.val, cBlock[2], P))))

\* elGamal_decrypt that catches the error and returns the blocks decrypted
\* before the pair that raised
elGamal_decrypt_partial(c, kprivate, P) ==
    LET outs == [i \in DOMAIN c |-> ElGamalDecryptBlock(c[i], kprivate, P)]
        good == {i \in DOMAIN outs : \A j \in 1..i : outs[j].err = "none"}
    IN  Ok(DropLast(JoinBlocks([i \in 1..Cardinality(good) |-> outs[i].val])))

\* elGamal_decrypt(c, kprivate, P): the first block that raises ends the call
elGamal_decrypt(c, kprivate, P) ==
    LET outs == [i \in DOMAIN c |-> ElGamalDecryptBlock(c[i], kprivate, P)]
    IN  IF \E i \in DOMAIN outs : outs[i].err # "none"
        THEN Raise("ValueError")
        ELSE Ok(DropLast(JoinBlocks([i \in DOMAIN outs |-> outs[i].val])))

----------------------------------------------------------------------------
(* The inputs drawn *)

RECURSIVE SeqsUpTo(_, _)
\* the sequences over S of length at most n
SeqsUpTo(S, n) ==
    IF n = 0 THEN {<<>>}
    ELSE LET shorter == SeqsUpTo(S, n - 1)
         IN  shorter \cup {Append(t, c) : t \in {u \in shorter : Len(u) = n - 1}, c \in S}

Messages == SeqsUpTo(Chars, MaxLen)

\* RSA key material: the sender's (P, Q, E) with the private exponent d, and
\* the receiver's pair r_k = (public, private).  The first is the key of the
\* examples of rsa_encrypt; the second has a seven-digit modulus; the third a
\* modulus below most block values.
RsaKeys ==
    { [P |-> 181,  Q |-> 1451, E |-> 154993, d |-> 95857,   r_k |-> <<45593, 235457>>],
      [P |-> 1021, Q |-> 2039, E |-> 7,      d |-> 1187863, r_k |-> <<11, 944891>>],
      [P |-> 11,   Q |-> 13,   E |-> 7,      d |-> 103,     r_k |-> <<11, 11>>] }

\* ElGamal key material (P, G, Y) with the private exponent.  The first is the
\* key of the examples of elGamal_encrypt; the second has a seven-digit
\* modulus; the third has a composite modulus that shares its factors with G,
\* so that G^k is 0 modulo P.
ElGamalKeys ==
    { [P |-> 262643,  G |-> 9563, Y |-> 27459,  kprivate |-> 3632],
      [P |-> 1000003, G |-> 2,    Y |-> 819288, kprivate |-> 77],
      [P |-> 12,      G |-> 6,    Y |-> 0,      kprivate |-> 3] }

\* the ephemeral secrets of the example of elGamal_encrypt, and a list of
\* secrets each coprime to P - 1 for both prime moduli above
SecretPools == { <<5, 3230, 9921, 176, 28119>>, <<5, 7, 11, 13, 17>> }

SecretLists ==
    {SubSeq(pool, 1, n) : pool \in SecretPools,
                          n \in 0..(IF MaxSecrets < 5 THEN MaxSecrets ELSE 5)}

NoCall == [fn |-> "none", key |-> <<>>, s_kpriv |-> None, r_k |-> None, K |-> <<>>]

NoDCall == [fn |-> "none", kpriv |-> 0, key |-> <<>>]

----------------------------------------------------------------------------
(* The state machine: one message taken through the calls of the driver *)

Init ==
    /\ s \in Messages
    /\ pc = "start"
    /\ plaintext = <<>>
    /\ call = NoCall
    /\ ciphertext = Ok(<<>>)
    /\ dcall = NoDCall
    /\ back2plain = Ok(<<>>)
    /\ original = Ok(<<>>)

\* plaintext = convert_to_plaintext(s)
ConvertToPlaintext ==
    /\ pc = "start"
    /\ plaintext' = convert_to_plaintext(s)
    /\ pc' = "plain"
    /\ UNCHANGED <<s, call, ciphertext, dcall, back2plain, original>>

\* convert_to_original(convert_to_plaintext(s))
ConvertPlaintextToOriginal ==
    /\ pc = "plain"
    /\ original' = convert_to_original(plaintext)
    /\ pc' = "codec_done"
    /\ UNCHANGED <<s, plaintext, call, ciphertext, dcall, back2plain>>

\* ciphertext = rsa_encrypt(s, s_kpub, s_kpriv, r_k)
RsaEncrypt ==
    /\ pc = "start"
    /\ \E k \in RsaKeys, signed \in BOOLEAN, layered \in BOOLEAN :
          LET s_kpub  == <<k.P, k.Q, k.E>>
              s_kpriv == IF signed THEN Some(k.d) ELSE None
              r_k     == IF layered THEN k.r_k ELSE None
          IN  /\ call' = [fn |-> "rsa_encrypt", key |-> s_kpub,
                          s_kpriv |-> s_kpriv, r_k |-> r_k, K |-> <<>>]
              /\ ciphertext' = Ok(rsa_encrypt(s, s_kpub, s_kpriv, r_k))
    /\ plaintext' = convert_to_plaintext(s)
    /\ pc' = "rsa_encrypted"
    /\ UNCHANGED <<s, dcall, back2plain, original>>

\* back2plain = rsa_decrypt(ciphertext, r_kpriv, s_k)
RsaDecrypt ==
    /\ pc = "rsa_encrypted"
    /\ ciphertext.err = "none"
    /\ \E k \in RsaKeys : \E r_kpriv \in {k.d, k.r_k[2]} :
          /\ dcall' = [fn |-> "rsa_decrypt", kpriv |-> r_kpriv, key |-> <<k.P, k.Q, k.E>>]
          /\ back2plain' = Ok(rsa_decrypt(ciphertext.val, r_kpriv, <<k.P, k.Q, k.E>>))
    /\ pc' = "decrypted"
    /\ UNCHANGED <<s, plaintext, call, ciphertext, original>>

\* ciphertext = elGamal_encrypt(s, kpub, K)
ElGamalEncrypt ==
    /\ pc = "start"
    /\ \E k \in ElGamalKeys, K \in SecretLists :
          /\ call' = [fn |-> "elGamal_encrypt", key |-> <<k.P, k.G, k.Y>>,
                      s_kpriv |-> None, r_k |-> None, K |-> K]
          /\ ciphertext' = elGamal_encrypt(s, <<k.P, k.G, k.Y>>, K)
    /\ plaintext' = convert_to_plaintext(s)
    /\ pc' = "elgamal_encrypted"
    /\ UNCHANGED <<s, dcall, back2plain, original>>

\* back2plain = elGamal_decrypt(ciphertext, kprivate, P)
ElGamalDecrypt ==
    /\ pc = "elgamal_encrypted"
    /\ ciphertext.err = "none"
    /\ \E k \in ElGamalKeys :
          /\ dcall' = [fn |-> "elGamal_decrypt", kpriv |-> k.kprivate, key |-> <<k.P>>]
          /\ back2plain' = elGamal_decrypt(ciphertext.val, k.kprivate, k.P)
    /\ pc' = "decrypted"
    /\ UNCHANGED <<s, plaintext, call, ciphertext, original>>

\* convert_to_original(back2plain)
ConvertToOriginal ==
    /\ pc = "decrypted"
    /\ back2plain.err = "none"
    /\ original' = convert_to_original(back2plain.val)
    /\ pc' = "done"
    /\ UNCHANGED <<s, plaintext, call, ciphertext, dcall, back2plain>>

Next ==
    \/ ConvertToPlaintext
    \/ ConvertPlaintextToOriginal
    \/ RsaEncrypt
    \/ RsaDecrypt
    \/ ElGamalEncrypt
    \/ ElGamalDecrypt
    \/ ConvertToOriginal

Spec == Init /\ [][Next]_vars

----------------------------------------------------------------------------
(* Vocabulary of the properties *)

\* p is prime, for p below 2047 * 2047
IsPrime(p) ==
    /\ p > 1
    /\ \A d \in 2..(IF p < 2048 THEN p - 1 ELSE 2047) : d * d > p \/ p % d # 0

\* P, Q distinct primes; d inverts E, and the receiver's pair are inverses,
\* modulo phi(N) = (P - 1) * (Q - 1)
ValidRsaKey(k) ==
    LET phi == (k.P - 1) * (k.Q - 1)
    IN  /\ IsPrime(k.P) /\ IsPrime(k.Q) /\ k.P # k.Q
        /\ MulMod(k.E % phi, k.d % phi, phi) = 1
        /\ MulMod(k.r_k[1] % phi, k.r_k[2] % phi, phi) = 1

ValidRsaKeys == {k \in RsaKeys : ValidRsaKey(k)}

\* P prime, G of order P - 1 modulo P (every proper divisor of P - 1 is q or
\* (P - 1) / q for some q below 2048), and Y = G^kprivate mod P
ValidElGamalKey(k) ==
    /\ IsPrime(k.P)
    /\ k.G % k.P # 1
    /\ \A q \in 2..2047 :
          (q < k.P - 1 /\ (k.P - 1) % q = 0)
              => /\ PowMod(k.G, q, k.P) # 1
                 /\ PowMod(k.G, (k.P - 1) \div q, k.P) # 1
    /\ k.Y = PowMod(k.G, k.kprivate, k.P)

ValidElGamalKeys == {k \in ElGamalKeys : ValidElGamalKey(k)}

\* the number of blocks of a message of n characters: ceil(n / 3)
NBlocks(n) == (n + 2) \div 3

\* the number of characters of block j (0-based) of a message of n characters
BlockChars(n, j) == IF 3 * j + 3 <= n THEN 3 ELSE n - 3 * j

\* the two-digit code of character c
Code(c) == ASCII(UpperChar(c))

\* block j (0-based) of message m: the codes of its characters, in order
RefBlock(m, j) ==
    [p \in 1..(2 * BlockChars(Len(m), j)) |->
        Code(m[3 * j + ((p + 1) \div 2)])[IF p % 2 = 1 THEN 1 ELSE 2]]

\* block j of message m filled on the left with zeros to six digits
RefPadded(m, j) ==
    LET b == RefBlock(m, j)
    IN  [p \in 1..6 |-> IF p <= 6 - Len(b) THEN "0" ELSE b[p - (6 - Len(b))]]

\* blocks 0..(k - 1) given by f, joined by single spaces
RECURSIVE SpaceJoined(_, _)
SpaceJoined(f, k) ==
    IF k = 0 THEN <<>>
    ELSE IF k = 1 THEN f[0]
    ELSE SpaceJoined(f, k - 1) \o <<" ">> \o f[k - 1]

\* the numeric-block string of m
RefPlaintext(m) ==
    SpaceJoined([j \in 0..(NBlocks(Len(m)) - 1) |-> RefBlock(m, j)], NBlocks(Len(m)))

\* the numeric-block string of m with every block zero-filled to six digits
RefPaddedPlaintext(m) ==
    SpaceJoined([j \in 0..(NBlocks(Len(m)) - 1) |-> RefPadded(m, j)], NBlocks(Len(m)))

\* every block value of m is below the modulus M
BlocksBelow(m, M) == \A j \in 0..(NBlocks(Len(m)) - 1) : int(RefBlock(m, j)) < M

\* t is a string of decimal digits
IsDigits(t) == \A i \in DOMAIN t : \E d \in DOMAIN Digits : Digits[d] = t[i]

\* the call made was rsa_encrypt under the valid key k, mode (signed, layered)
RsaEncryptedWith(k, signed, layered) ==
    /\ call.fn = "rsa_encrypt"
    /\ call.key = <<k.P, k.Q, k.E>>
    /\ call.s_kpriv = (IF signed THEN Some(k.d) ELSE None)
    /\ call.r_k = (IF layered THEN k.r_k ELSE None)

\* rsa_encrypt without signing or receiver layer, then rsa_decrypt with the
\* sender's private exponent d, under one valid key whose modulus exceeds
\* every block value
RsaPlainRoundTrip ==
    /\ pc \in {"decrypted", "done"}
    /\ dcall.fn = "rsa_decrypt"
    /\ \E k \in ValidRsaKeys :
          /\ RsaEncryptedWith(k, FALSE, FALSE)
          /\ dcall.key = <<k.P, k.Q, k.E>>
          /\ dcall.kpriv = k.d
          /\ BlocksBelow(s, k.P * k.Q)

\* rsa_encrypt with the sender's private exponent and the receiver's public
\* exponent, then rsa_decrypt with the receiver's private exponent, under one
\* valid key whose modulus exceeds every block value
RsaLayeredRoundTrip ==
    /\ pc \in {"decrypted", "done"}
    /\ dcall.fn = "rsa_decrypt"
    /\ \E k \in ValidRsaKeys :
          /\ RsaEncryptedWith(k, TRUE, TRUE)
          /\ dcall.key = <<k.P, k.Q, k.E>>
          /\ dcall.kpriv = k.r_k[2]
          /\ BlocksBelow(s, k.P * k.Q)

\* elGamal_encrypt returned a ciphertext under a valid key, then
\* elGamal_decrypt with that key's private exponent and modulus; every block
\* value is below the modulus
ElGamalRoundTrip ==
    /\ pc \in {"decrypted", "done"}
    /\ dcall.fn = "elGamal_decrypt"
    /\ call.fn = "elGamal_encrypt"
    /\ \E k \in ValidElGamalKeys :
          /\ call.key = <<k.P, k.G, k.Y>>
          /\ dcall.key = <<k.P>>
          /\ dcall.kpriv = k.kprivate
          /\ BlocksBelow(s, k.P)

\* one ephemeral secret per block, each coprime to P - 1
SecretsAsRequired ==
    /\ Len(call.K) = NBlocks(Len(s))
    /\ \A i \in DOMAIN call.K : gcd(call.K[i], call.key[1] - 1) = 1

----------------------------------------------------------------------------
(* Properties *)

\* C1 (for messages of whole blocks, where zero filling plays no part):
\* encrypting with rsa_encrypt(s, (P,Q,E), None, None) and decrypting with
\* rsa_decrypt(c, d, (P,Q,E)), d the inverse of E modulo phi(N), returns the
\* numeric-block string convert_to_plaintext(s).
C1_RsaRoundTripRecoversPlaintext ==
    (RsaPlainRoundTrip /\ Len(s) % 3 = 0) => back2plain = Ok(convert_to_plaintext(s))

\* C2 as claimed: the layered RSA round trip (sender private exponent, then
\* receiver public exponent; decrypted with the receiver private exponent,
\* then E) returns the numeric-block string of s itself.
C2_LayeredRoundTripExact ==
    RsaLayeredRoundTrip => back2plain = Ok(convert_to_plaintext(s))

\* C2 as amended: the layered RSA round trip returns the numeric-block string
\* of s with every block zero-filled on the left to six digits; it is the
\* numeric-block string itself when the length of s is a multiple of three.
C2_LayeredRoundTripPadded ==
    RsaLayeredRoundTrip =>
        /\ back2plain = Ok(RefPaddedPlaintext(s))
        /\ (Len(s) % 3 = 0 => back2plain = Ok(convert_to_plaintext(s)))

\* a layered RSA round trip of a four-character message: the last block is
\* returned zero-filled
C2_Witness ==
    /\ RsaLayeredRoundTrip
    /\ Len(s) = 4
    /\ back2plain.err = "none"
    /\ back2plain.val # plaintext

\* C3 as claimed: with one ephemeral secret per block, each coprime to P - 1,
\* elGamal_decrypt(elGamal_encrypt(s, (P,G,Y), K), kprivate, P) equals
\* convert_to_plaintext(s).
C3_ElGamalRoundTripExact ==
    (ElGamalRoundTrip /\ SecretsAsRequired) => back2plain = Ok(convert_to_plaintext(s))

\* C3 as amended: the ElGamal round trip returns the numeric-block string of s
\* with every block zero-filled on the left to six digits; it is the
\* numeric-block string itself when the length of s is a multiple of three.
C3_ElGamalRoundTripPadded ==
    ElGamalRoundTrip =>
        /\ back2plain = Ok(RefPaddedPlaintext(s))
        /\ (Len(s) % 3 = 0 => back2plain = Ok(convert_to_plaintext(s)))

\* an ElGamal round trip of a four-character message with secrets as required:
\* the last block is returned zero-filled
C3_Witness ==
    /\ ElGamalRoundTrip
    /\ SecretsAsRequired
    /\ Len(s) = 4
    /\ back2plain.err = "none"
    /\ back2plain.val # plaintext

\* C4: convert_to_original(convert_to_plaintext(s)) is s in upper case, for
\* every message over the alphabet, of any length.
C4_CodecRoundTrip ==
    pc = "codec_done" => original = Ok(upper(s))

\* a codec round trip of a four-character message holding a lower-case letter
\* and a space
C4_Witness ==
    /\ pc = "codec_done"
    /\ Len(s) = 4
    /\ s # upper(s)
    /\ \E i \in DOMAIN s : s[i] = " "
    /\ original.err = "none"

DecryptModulus == IF dcall.fn = "rsa_decrypt" THEN dcall.key[1] * dcall.key[2] ELSE dcall.key[1]

\* a block of at least six decimal digits, of exactly six when the modulus is
\* at most 10^6, and with no zero in front of a seventh digit
WidthOk(block, modulus) ==
    /\ IsDigits(block)
    /\ Len(block) >= 6
    /\ (modulus <= 1000000 => Len(block) = 6)
    /\ (Len(block) > 6 => block[1] # "0")

C7_RsaRangeCheck ==
    /\ (pc = "rsa_encrypted"
          /\ \E j \in 0..(NBlocks(Len(s)) - 1) :
                int(RefBlock(s, j)) > call.key[1] * call.key[2])
          => ciphertext.err # "none"
    /\ (pc = "decrypted" /\ dcall.fn = "rsa_decrypt"
          /\ \E i \in DOMAIN ciphertext.val :
                int(ciphertext.val[i]) > dcall.key[1] * dcall.key[2])
          => back2plain.err # "none"

\* C8: when the ciphertext holds a pair (C1, C2) with gcd(C1, P) # 1, for a
\* modulus P >= 2 and a private exponent >= 1, elGamal_decrypt raises and
\* returns no string.
C8_NonInvertibleRaises ==
    (/\ pc = "decrypted"
     /\ dcall.fn = "elGamal_decrypt"
     /\ dcall.key[1] >= 2
     /\ dcall.kpriv >= 1
     /\ \E i \in DOMAIN ciphertext.val : gcd(ciphertext.val[i][1], dcall.key[1]) # 1)
        => (back2plain.err # "none" /\ back2plain.val = <<>>)

\* elGamal_decrypt raised on a pair that follows an invertible one
C8_Witness ==
    /\ pc = "decrypted"
    /\ dcall.fn = "elGamal_decrypt"
    /\ Len(ciphertext.val) = 2
    /\ gcd(ciphertext.val[1][1], dcall.key[1]) = 1
    /\ gcd(ciphertext.val[2][1], dcall.key[1]) # 1
    /\ back2plain.err = "ValueError"

\* s in upper case with 3 - k letters "A" put in front of the k characters of
\* its last block
WithSpuriousA(m) ==
    LET n == Len(m)
        k == IF n % 3 = 0 THEN 3 ELSE n % 3
        u == upper(m)
    IN  IF n = 0 THEN <<>>
        ELSE SubSeq(u, 1, n - k) \o [i \in 1..(3 - k) |-> "A"] \o SubSeq(u, n - k + 1, n)

\* C9: after an ElGamal or a layered RSA round trip under a valid key whose
\* modulus exceeds every block value, convert_to_original returns s in upper
\* case with 3 - k letters "A" in front of the k characters of the last
\* block; this is s in upper case exactly when the length of s is a multiple
\* of three.
C9_TextRoundTrip ==
    (pc = "done" /\ (ElGamalRoundTrip \/ RsaLayeredRoundTrip)) =>
        /\ original = Ok(WithSpuriousA(s))
        /\ (original = Ok(upper(s))) <=> (Len(s) % 3 = 0)

\* a round trip of a four-character message decoded with two spurious letters
C9_Witness ==
    /\ pc = "done"
    /\ ElGamalRoundTrip
    /\ Len(s) = 4
    /\ original.err = "none"
    /\ Len(original.val) = 6
    /\ original.val # upper(s)

\* C10: convert_to_plaintext(s) is empty for the empty message; otherwise it
\* holds ceil(n / 3) blocks separated by single spaces, with no separator in
\* front or behind; block j is the codes of characters 3j, 3j+1, 3j+2 that
\* exist, in order, so all blocks have six digits but the last, which has
\* two, four or six.
C10_BlockFraming ==
    pc # "start" =>
        LET n      == Len(s)
            blocks == split(plaintext)
        IN  /\ n = 0 => plaintext = <<>>
            /\ plaintext = RefPlaintext(s)
            /\ Len(blocks) = NBlocks(n)
            /\ \A j \in 1..Len(blocks) :
                  /\ blocks[j] = RefBlock(s, j - 1)
                  /\ j < Len(blocks) => Len(blocks[j]) = 6
                  /\ Len(blocks[j]) \in {2, 4, 6}
            /\ n >= 1 => (plaintext[1] # " " /\ plaintext[Len(plaintext)] # " ")
            /\ Len(plaintext) = 2 * n + (IF n = 0 THEN 0 ELSE NBlocks(n) - 1)

\* the plaintext of a four-character message: a full block and a short one
C10_Witness ==
    /\ pc = "plain"
    /\ Len(s) = 4
    /\ Len(split(plaintext)) = 2
    /\ Len(split(plaintext)[2]) = 2

============================================================================
